---- MODULE Spec2Model ----
(***************************************************************************)
(* A model of inferattrs (src/main.go): the PathTree of used attribute     *)
(* paths, the annotation of the input document, the OPA tracer that        *)
(* records used terms, the YAML source-location lookup and the infer       *)
(* driver that ties them together.                                         *)
(*                                                                         *)
(* Strings are sequences of one-character strings, so that the JSON        *)
(* encoding of a Path (json.Marshal / json.Unmarshal) is modelled by what  *)
(* it does to the characters.                                              *)
(***************************************************************************)
EXTENDS Integers, Sequences, FiniteSets, TLC

VARIABLES
    pc,        \* position of the running operation
    tree,      \* locationTracer.tree, the PathTree
    inserted,  \* history: the paths handed to PathTree.Insert so far
    nCalls,    \* number of calls/events made so far (bounded)
    src,       \* Source.root, the yaml.Node tree of the document
    lpath,     \* the Path handed to Source.Location
    loc,       \* the outcome of the last Source.Location call
    input,     \* the input document as an ast.Term
    lastEvent, \* the topdown.Event last handed to Trace
    disk,      \* the document and the rule module as files
    queue,     \* the events the engine has still to emit in this run
    paths,     \* the result of tracer.tree.List() that infer ranges over
    next,      \* the index of the next of these paths to resolve
    out,       \* the lines written to stderr
    err        \* the error infer returns

vars == <<pc, tree, inserted, nCalls, src, lpath, loc, input, lastEvent,
          disk, queue, paths, next, out, err>>

\* The variables that only the infer driver changes.
driver == <<disk, queue, paths, next, out, err>>

----------------------------------------------------------------------------
(* Bounds *)

MaxLen == 3       \* longest Path drawn as an input
MaxCalls == 3     \* number of Insert calls in one behaviour
MaxPathLen == 4   \* longest Path handed to Source.Location
MaxEvents == 2    \* number of events the engine emits in one traced run

----------------------------------------------------------------------------
(* Strings *)

sA == <<"A">>
sB == <<"B">>
sResources == <<"R", "e", "s", "o", "u", "r", "c", "e", "s">>
sSubnet == <<"S", "u", "b", "n", "e", "t">>
sVpc == <<"V", "p", "c">>
sType == <<"T", "y", "p", "e">>
sProperties == <<"P", "r", "o", "p", "e", "r", "t", "i", "e", "s">>
sCidrBlock == <<"C", "i", "d", "r", "B", "l", "o", "c", "k">>
sSubnetType == <<"A", "W", "S", ":", ":", "E", "C", "2", ":", ":", "S", "u", "b", "n", "e", "t">>
sVpcType == <<"A", "W", "S", ":", ":", "E", "C", "2", ":", ":", "V", "P", "C">>
sCidr20 == <<"1", "0", ".", "0", ".", "0", ".", "0", "/", "2", "0">>
sCidr16 == <<"1", "0", ".", "0", ".", "0", ".", "0", "/", "1", "6">>
sCidr24 == <<"1", "0", ".", "0", ".", "0", ".", "0", "/", "2", "4">>

TreeKeys == {sA, sB}

RECURSIVE SeqsUpTo(_, _)
SeqsUpTo(S, n) ==
    IF n = 0 THEN {<<>>}
    ELSE LET shorter == SeqsUpTo(S, n - 1)
         IN  shorter \cup {Append(p, k) : p \in shorter, k \in S}

TreePaths == SeqsUpTo(TreeKeys, MaxLen)

IsPrefix(p, q) == Len(p) <= Len(q) /\ SubSeq(q, 1, Len(p)) = p
IsStrictPrefix(p, q) == Len(p) < Len(q) /\ SubSeq(q, 1, Len(p)) = p

----------------------------------------------------------------------------
(* yaml.Node: the position-carrying parse tree of gopkg.in/yaml.v3 *)

Node(kind, value, line, column, content) ==
    [Kind |-> kind, Value |-> value, Line |-> line, Column |-> column,
     Content |-> content]

\* The zero yaml.Node, which yaml.Unmarshal leaves untouched on empty input.
NoNode == Node("Zero", <<>>, 0, 0, <<>>)

Scalar(value, line, column) == Node("Scalar", value, line, column, <<>>)
Mapping(line, column, content) == Node("Mapping", <<>>, line, column, content)
Sequence(line, column, content) == Node("Sequence", <<>>, line, column, content)
Alias(value, line, column) == Node("Alias", value, line, column, <<>>)
Document(content) == Node("Document", <<>>, 1, 1, <<content>>)

\* Resources:
\*   Subnet:
\*     Type: AWS::EC2::Subnet
\*     Properties:
\*       CidrBlock: 10.0.0.0/20
SubnetDoc ==
    Document(Mapping(1, 1, <<
        Scalar(sResources, 1, 1), Mapping(2, 3, <<
            Scalar(sSubnet, 2, 3), Mapping(3, 5, <<
                Scalar(sType, 3, 5), Scalar(sSubnetType, 3, 11),
                Scalar(sProperties, 4, 5), Mapping(5, 7, <<
                    Scalar(sCidrBlock, 5, 7), Scalar(sCidr20, 5, 18) >>) >>) >>) >>))

\* The same resource with Properties written before Type.
\* Resources:
\*   Subnet:
\*     Properties:
\*       CidrBlock: 10.0.0.0/20
\*     Type: AWS::EC2::Subnet
SubnetDocPropsFirst ==
    Document(Mapping(1, 1, <<
        Scalar(sResources, 1, 1), Mapping(2, 3, <<
            Scalar(sSubnet, 2, 3), Mapping(3, 5, <<
                Scalar(sProperties, 3, 5), Mapping(4, 7, <<
                    Scalar(sCidrBlock, 4, 7), Scalar(sCidr20, 4, 18) >>),
                Scalar(sType, 5, 5), Scalar(sSubnetType, 5, 11) >>) >>) >>))

\* Resources:
\*   Vpc:
\*     Type: AWS::EC2::VPC
\*     Properties:
\*       CidrBlock: 10.0.0.0/16
\*   Subnet:
\*     Type: AWS::EC2::Subnet
\*     Properties:
\*       CidrBlock: 10.0.0.0/24
TwoResourcesDoc ==
    Document(Mapping(1, 1, <<
        Scalar(sResources, 1, 1), Mapping(2, 3, <<
            Scalar(sVpc, 2, 3), Mapping(3, 5, <<
                Scalar(sType, 3, 5), Scalar(sVpcType, 3, 11),
                Scalar(sProperties, 4, 5), Mapping(5, 7, <<
                    Scalar(sCidrBlock, 5, 7), Scalar(sCidr16, 5, 18) >>) >>),
            Scalar(sSubnet, 6, 3), Mapping(7, 5, <<
                Scalar(sType, 7, 5), Scalar(sSubnetType, 7, 11),
                Scalar(sProperties, 8, 5), Mapping(9, 7, <<
                    Scalar(sCidrBlock, 9, 7), Scalar(sCidr24, 9, 18) >>) >>) >>) >>))

\* Resources:
\*   - Type
\*   - Subnet
\*   - Properties
SequenceDoc ==
    Document(Mapping(1, 1, <<
        Scalar(sResources, 1, 1), Sequence(2, 3, <<
            Scalar(sType, 2, 5), Scalar(sSubnet, 3, 5),
            Scalar(sProperties, 4, 5) >>) >>))

\* Properties: &p
\*   CidrBlock: 10.0.0.0/20
\* Subnet: *p
AliasDoc ==
    Document(Mapping(1, 1, <<
        Scalar(sProperties, 1, 1), Mapping(1, 13, <<
            Scalar(sCidrBlock, 2, 3), Scalar(sCidr20, 2, 14) >>),
        Scalar(sSubnet, 3, 1), Alias(<<"p">>, 3, 9) >>))

\* Type: AWS::EC2::Subnet
FlatDoc ==
    Document(Mapping(1, 1, <<
        Scalar(sType, 1, 1), Scalar(sSubnetType, 1, 7) >>))

\* A resource without a Type.
\* Resources:
\*   Subnet:
\*     Properties:
\*       CidrBlock: 10.0.0.0/20
\*     CidrBlock: 10.0.0.0/16
UntypedDoc ==
    Document(Mapping(1, 1, <<
        Scalar(sResources, 1, 1), Mapping(2, 3, <<
            Scalar(sSubnet, 2, 3), Mapping(3, 5, <<
                Scalar(sProperties, 3, 5), Mapping(4, 7, <<
                    Scalar(sCidrBlock, 4, 7), Scalar(sCidr20, 4, 18) >>),
                Scalar(sCidrBlock, 5, 5), Scalar(sCidr16, 5, 16) >>) >>) >>))

\* A document that is a single scalar, and an empty file.
ScalarDoc == Document(Scalar(sType, 1, 1))

Sources ==
    {SubnetDoc, SubnetDocPropsFirst, TwoResourcesDoc, SequenceDoc, AliasDoc,
     FlatDoc, UntypedDoc, ScalarDoc, NoNode}

LocKeys == {sResources, sSubnet, sType, sProperties, sCidrBlock}
LocPaths == SeqsUpTo(LocKeys, MaxPathLen)

----------------------------------------------------------------------------
(* Source.Location *)

SourceFile == "template.yml"

Returned(node) ==
    [Kind |-> "return", File |-> SourceFile, Line |-> node.Line,
     Column |-> node.Column]
\* A Go runtime panic: index out of range.
Panicked == [Kind |-> "panic", File |-> SourceFile, Line |-> 0, Column |-> 0]
\* The loop `for len(path) > 0` repeats without changing cursor or path.
Hangs == [Kind |-> "hang", File |-> SourceFile, Line |-> 0, Column |-> 0]
NoOutcome == [Kind |-> "none", File |-> SourceFile, Line |-> 0, Column |-> 0]

\* The scan `for i := 0; i < len(cursor.Content); i += 2` of the mapping
\* case; i counts from 0 as in the source, Content is indexed from 1 here.
\* The bound and both operands are read from the cursor and path as they
\* are at that iteration, after any assignment made by an earlier one.
\* Mutant: the scan descends into the key node instead of its value.
RECURSIVE ScanIntoKey(_, _, _)
ScanIntoKey(cursor, path, i) ==
    IF ~(i < Len(cursor.Content))
    THEN [cursor |-> cursor, path |-> path, panic |-> FALSE]
    ELSE IF Len(path) = 0
    THEN [cursor |-> cursor, path |-> path, panic |-> TRUE]
    ELSE IF cursor.Content[i + 1].Value = path[1]
    THEN ScanIntoKey(cursor.Content[i + 1], Tail(path), i + 2)
    ELSE ScanIntoKey(cursor, path, i + 2)

RECURSIVE Scan(_, _, _)
Scan(cursor, path, i) ==
    IF ~(i < Len(cursor.Content))
    THEN [cursor |-> cursor, path |-> path, panic |-> FALSE]
    ELSE IF Len(path) = 0
    THEN [cursor |-> cursor, path |-> path, panic |-> TRUE]
    ELSE IF cursor.Content[i + 1].Value = path[1]
    THEN IF ~(i + 1 < Len(cursor.Content))
         THEN [cursor |-> cursor, path |-> path, panic |-> TRUE]
         ELSE Scan(cursor.Content[i + 2], Tail(path), i + 2)
    ELSE Scan(cursor, path, i + 2)

\* The loop `for len(path) > 0 { switch cursor.Kind ... }`.  An iteration
\* that leaves cursor and path as they were is repeated forever.
RECURSIVE LocationLoop(_, _)
LocationLoop(cursor, path) ==
    IF ~(Len(path) > 0) THEN Returned(cursor)
    ELSE IF cursor.Kind = "Document"
    THEN IF Len(cursor.Content) = 0 THEN Panicked
         ELSE LocationLoop(cursor.Content[1], path)
    ELSE IF cursor.Kind = "Mapping"
    THEN LET r == Scan(cursor, path, 0)
         IN  IF r.panic THEN Panicked
             ELSE IF r.cursor = cursor /\ r.path = path THEN Hangs
             ELSE LocationLoop(r.cursor, r.path)
    ELSE Hangs

Location(root, path) == LocationLoop(root, path)

----------------------------------------------------------------------------
(* PathTree: type PathTree map[string]PathTree *)

EmptyTree == [k \in {} |-> {}]

\* tree[path[0]] = map[string]PathTree{}
WithKey(t, k) ==
    [x \in DOMAIN t \cup {k} |-> IF x \in DOMAIN t THEN t[x] ELSE EmptyTree]

\* Mutant: the last segment of a path is never recorded (len(path) > 1).
RECURSIVE InsertDropsLast(_, _)
InsertDropsLast(t, path) ==
    IF Len(path) > 1
    THEN LET t1 == IF Head(path) \in DOMAIN t THEN t ELSE WithKey(t, Head(path))
         IN  [t1 EXCEPT ![Head(path)] = InsertDropsLast(t1[Head(path)], Tail(path))]
    ELSE t

\* Mutant: the child is created anew without the `!ok` test, so an existing
\* subtree is thrown away.
RECURSIVE InsertOverwrites(_, _)
InsertOverwrites(t, path) ==
    IF Len(path) > 0
    THEN LET t1 == [x \in DOMAIN t \cup {Head(path)} |->
                       IF x = Head(path) THEN EmptyTree ELSE t[x]]
         IN  [t1 EXCEPT ![Head(path)] = InsertOverwrites(t1[Head(path)], Tail(path))]
    ELSE t

RECURSIVE Insert(_, _)
Insert(t, path) ==
    IF Len(path) > 0
    THEN LET t1 == IF Head(path) \in DOMAIN t THEN t ELSE WithKey(t, Head(path))
         IN  [t1 EXCEPT ![Head(path)] = Insert(t1[Head(path)], Tail(path))]
    ELSE t

\* `for k, child := range tree`: the order in which a Go range statement
\* visits the keys of a map is unspecified and differs from one statement
\* to the next, so every order of the keys is possible.
RangeKeys(S) ==
    {ks \in [1..Cardinality(S) -> S] :
        \A i \in 1..Cardinality(S) : \A j \in 1..Cardinality(S) :
            i # j => ks[i] # ks[j]}

RECURSIVE Concat(_)
Concat(ss) == IF ss = <<>> THEN <<>> ELSE Head(ss) \o Concat(Tail(ss))

\* The inner loop of List: the paths of a child, each behind the child's key.
ChildPaths(k, sub) == [j \in 1..Len(sub) |-> <<k>> \o sub[j]]

\* The ways to pick one element of F[k] for every k: the results that the
\* calls child.List() of one run over the children can return together.
RECURSIVE Choices(_)
Choices(F) ==
    IF DOMAIN F = {} THEN {[k \in {} |-> <<>>]}
    ELSE LET k == CHOOSE x \in DOMAIN F : TRUE
             rest == Choices([x \in DOMAIN F \ {k} |-> F[x]])
         IN  {[x \in DOMAIN F |-> IF x = k THEN v ELSE g[x]] :
                 v \in F[k], g \in rest}

\* Mutant: a node with children also emits the path that ends at itself.
RECURSIVE ListWithParents(_)
ListWithParents(t) ==
    IF DOMAIN t = {}
    THEN {<< <<>> >>}
    ELSE {<< <<>> >> \o Concat([j \in 1..Len(keys) |->
                                   ChildPaths(keys[j], subs[keys[j]])]) :
             keys \in RangeKeys(DOMAIN t),
             subs \in Choices([k \in DOMAIN t |-> ListWithParents(t[k])])}

\* Mutant: every child's paths are appended twice.
RECURSIVE ListTwice(_)
ListTwice(t) ==
    IF DOMAIN t = {}
    THEN {<< <<>> >>}
    ELSE {Concat([j \in 1..Len(keys) |->
                     ChildPaths(keys[j], subs[keys[j]])
                         \o ChildPaths(keys[j], subs[keys[j]])]) :
             keys \in RangeKeys(DOMAIN t),
             subs \in Choices([k \in DOMAIN t |-> ListTwice(t[k])])}

\* List: the results the call can return.  The paths are the same in all
\* of them; their order follows the order in which each range statement
\* visits the keys, at this node (keys) and in the call for each child (subs).
RECURSIVE List(_)
List(t) ==
    IF DOMAIN t = {}
    THEN {<< <<>> >>}
    ELSE {Concat([j \in 1..Len(keys) |->
                     ChildPaths(keys[j], subs[keys[j]])]) :
             keys \in RangeKeys(DOMAIN t),
             subs \in Choices([k \in DOMAIN t |-> List(t[k])])}

Range(s) == {s[j] : j \in 1..Len(s)}

----------------------------------------------------------------------------
(* ast.Term: a value with the Location metadata that annotate reuses *)

NilLocation == [Nil |-> TRUE, File |-> <<>>]
FileLocation(file) == [Nil |-> FALSE, File |-> file]

Value(type, str, elems) == [Type |-> type, Str |-> str, Elems |-> elems]
StringV(str) == Value("string", str, <<>>)
NumberV(str) == Value("number", str, <<>>)
NullV == Value("null", <<>>, <<>>)
VarV(name) == Value("var", name, <<>>)
RefV(name) == Value("ref", name, <<>>)
\* An object's elements are its key/value terms, in the order of Keys();
\* the elements of an array or a set carry a null key.
ObjectV(elems) == Value("object", <<>>, elems)
ArrayV(elems) == Value("array", <<>>, elems)
SetV(elems) == Value("set", <<>>, elems)

Term(value, location) == [Value |-> value, Location |-> location]
NewTerm(value) == Term(value, NilLocation)
Elem(key, val) == [Key |-> key, Val |-> val]

\* yaml.Unmarshal into interface{} followed by ast.InterfaceToValue: a
\* mapping becomes an object with string keys, a sequence an array, a
\* scalar a string, the empty document null.
RECURSIVE InterfaceToValue(_)
InterfaceToValue(node) ==
    IF node.Kind = "Document" THEN InterfaceToValue(node.Content[1])
    ELSE IF node.Kind = "Mapping"
    THEN NewTerm(ObjectV(
             [j \in 1..(Len(node.Content) \div 2) |->
                 Elem(NewTerm(StringV(node.Content[2 * j - 1].Value)),
                      InterfaceToValue(node.Content[2 * j]))]))
    ELSE IF node.Kind = "Sequence"
    THEN NewTerm(ArrayV(
             [j \in 1..Len(node.Content) |->
                 Elem(NewTerm(NullV), InterfaceToValue(node.Content[j]))]))
    ELSE IF node.Kind = "Scalar" THEN NewTerm(StringV(node.Value))
    ELSE NewTerm(NullV)

----------------------------------------------------------------------------
(* encoding/json on a Path: json.Marshal and json.Unmarshal *)

sPathPrefix == <<"p", "a", "t", "h", ":">>
sPolicyFile == <<"p", "o", "l", "i", "c", "y", ".", "r", "e", "g", "o">>

\* Marshal escapes the quote and the backslash, and (HTML-safe by default)
\* writes "<" as \u003c; every other character of the model is copied.
EscapeChar(c) ==
    IF c = "\"" THEN <<"\\", "\"">>
    ELSE IF c = "\\" THEN <<"\\", "\\">>
    ELSE IF c = "<" THEN <<"\\", "u", "0", "0", "3", "c">>
    ELSE <<c>>

Quote(str) ==
    <<"\"">> \o Concat([j \in 1..Len(str) |-> EscapeChar(str[j])]) \o <<"\"">>

RECURSIVE Join(_)
Join(strs) ==
    IF Len(strs) = 0 THEN <<>>
    ELSE IF Len(strs) = 1 THEN strs[1]
    ELSE strs[1] \o <<",">> \o Join(Tail(strs))

Marshal(path) ==
    <<"[">> \o Join([j \in 1..Len(path) |-> Quote(path[j])]) \o <<"]">>

Invalid == [ok |-> FALSE, str |-> <<>>, next |-> 0, path |-> <<>>]

\* Reads the characters of a JSON string from pos, after its opening quote,
\* up to the closing quote.
RECURSIVE Unquote(_, _, _)
Unquote(text, pos, acc) ==
    IF pos > Len(text) THEN Invalid
    ELSE IF text[pos] = "\""
    THEN [ok |-> TRUE, str |-> acc, next |-> pos + 1, path |-> <<>>]
    ELSE IF text[pos] = "\\"
    THEN IF pos + 1 > Len(text) THEN Invalid
         ELSE IF text[pos + 1] \in {"\"", "\\", "/"}
         THEN Unquote(text, pos + 2, Append(acc, text[pos + 1]))
         ELSE IF /\ text[pos + 1] = "u"
                 /\ pos + 5 <= Len(text)
                 /\ SubSeq(text, pos + 2, pos + 5) = <<"0", "0", "3", "c">>
         THEN Unquote(text, pos + 6, Append(acc, "<"))
         ELSE Invalid
    ELSE Unquote(text, pos + 1, Append(acc, text[pos]))

\* Reads the elements of a JSON array of strings from pos.
RECURSIVE Elements(_, _, _)
Elements(text, pos, acc) ==
    IF pos > Len(text) \/ text[pos] # "\"" THEN Invalid
    ELSE LET r == Unquote(text, pos + 1, <<>>)
         IN  IF ~r.ok \/ r.next > Len(text) THEN Invalid
             ELSE IF text[r.next] = ","
             THEN Elements(text, r.next + 1, Append(acc, r.str))
             ELSE IF text[r.next] = "]" /\ r.next = Len(text)
             THEN [ok |-> TRUE, str |-> <<>>, next |-> r.next + 1,
                   path |-> Append(acc, r.str)]
             ELSE Invalid

\* json.Unmarshal(text, &path) with path a nil Path: on an error the path
\* stays nil (the empty path).
Unmarshal(text) ==
    IF text = <<"[", "]">>
    THEN [ok |-> TRUE, str |-> <<>>, next |-> 3, path |-> <<>>]
    ELSE IF Len(text) >= 2 /\ text[1] = "["
    THEN Elements(text, 2, <<>>)
    ELSE Invalid

TrimPrefix(str, prefix) ==
    IF Len(str) >= Len(prefix) /\ SubSeq(str, 1, Len(prefix)) = prefix
    THEN SubSeq(str, Len(prefix) + 1, Len(str))
    ELSE str

----------------------------------------------------------------------------
(* annotate *)

RECURSIVE Annotate(_, _)
RECURSIVE AnnotateChildren(_, _)

\* Mutant: the segment appended for a child is not removed again, so the
\* next sibling is annotated below it.
RECURSIVE AnnotateChildrenNoRestore(_, _)
AnnotateChildrenNoRestore(path, elems) ==
    IF elems = <<>> THEN <<>>
    ELSE LET e == Head(elems)
         IN  IF e.Key.Value.Type = "string"
             THEN LET extended == Append(path, e.Key.Value.Str)
                  IN  <<Elem(e.Key, Annotate(extended, e.Val))>>
                          \o AnnotateChildrenNoRestore(extended, Tail(elems))
             ELSE <<e>> \o AnnotateChildrenNoRestore(path, Tail(elems))

\* The loop over value.Keys(): `path` is extended for the child and cut
\* back before the next key.  A child's own appends write past the end of
\* the slice its parent sees, so the shared backing array of the Go slice
\* never shows through and the path behaves as a value.
AnnotateChildren(path, elems) ==
    IF elems = <<>> THEN <<>>
    ELSE LET e == Head(elems)
         IN  IF e.Key.Value.Type = "string"
             THEN LET extended == Append(path, e.Key.Value.Str)
                      restored == SubSeq(extended, 1, Len(extended) - 1)
                  IN  <<Elem(e.Key, Annotate(extended, e.Val))>>
                          \o AnnotateChildren(restored, Tail(elems))
             ELSE <<e>> \o AnnotateChildren(path, Tail(elems))

\* Mutant: only a term that holds an object gets the location.
AnnotateObjectsOnly(path, term) ==
    IF term.Value.Type = "object"
    THEN [term EXCEPT !.Location = FileLocation(sPathPrefix \o Marshal(path)),
                      !.Value.Elems = AnnotateChildren(path, term.Value.Elems)]
    ELSE term

\* json.Marshal of a []string never fails, so every term visited gets the
\* location; only the children of an object are visited.
Annotate(path, term) ==
    LET located == [term EXCEPT !.Location =
                        FileLocation(sPathPrefix \o Marshal(path))]
    IN  IF term.Value.Type = "object"
        THEN [located EXCEPT !.Value.Elems =
                  AnnotateChildren(path, term.Value.Elems)]
        ELSE located

----------------------------------------------------------------------------
(* locationTracer *)

\* The tracer with the history of the paths handed to Insert.
Tracer(t, ins) == [tree |-> t, inserted |-> ins]

used(tracer, term) ==
    IF ~term.Location.Nil
    THEN LET val == TrimPrefix(term.Location.File, sPathPrefix)
         IN  IF val # term.Location.File
             THEN LET path == Unmarshal(val).path
                  IN  Tracer(Insert(tracer.tree, path),
                             tracer.inserted \cup {path})
             ELSE tracer
    ELSE tracer

\* topdown.Event: the operation, the node (an *ast.Expr or not), the
\* expression's Terms (a []*ast.Term, a single *ast.Term, or something
\* else) and the variable bindings that Plug fills in.
Event(op, isExpr, kind, terms, locals) ==
    [Op |-> op, IsExpr |-> isExpr, Kind |-> kind, Terms |-> terms,
     Locals |-> locals]

Binding(name, term) == [Name |-> name, Term |-> term]

NoEvent == Event("none", FALSE, "other", <<>>, <<>>)

\* The files infer reads: whether each can be read and parsed, the parse
\* tree of the document, and whether the document also decodes into a
\* value (yaml.Unmarshal into interface{} rejects, for one, a mapping with
\* a key written twice, which the decoding into a yaml.Node accepts).
Disk(fileReads, fileParses, fileDecodes, root, policyReads, policyCompiles) ==
    [FileReads |-> fileReads, FileParses |-> fileParses,
     FileDecodes |-> fileDecodes, Root |-> root,
     PolicyReads |-> policyReads, PolicyCompiles |-> policyCompiles]
NoDisk == Disk(FALSE, FALSE, FALSE, NoNode, FALSE, FALSE)

NoError == "nil"

\* event.Plug: a variable bound in the event stands for its value.
Plug(event, term) ==
    IF /\ term.Value.Type = "var"
       /\ \E j \in 1..Len(event.Locals) : event.Locals[j].Name = term.Value.Str
    THEN LET j == CHOOSE x \in 1..Len(event.Locals) :
                      event.Locals[x].Name = term.Value.Str
         IN  event.Locals[j].Term
    ELSE term

\* ast.Expr.Operands: the terms after the operator, nil for a single term.
Operands(event) ==
    IF event.Kind = "list" THEN Tail(event.Terms) ELSE <<>>

sEq == <<"e", "q">>
sEqual == <<"e", "q", "u", "a", "l">>
sSplit == <<"s", "p", "l", "i", "t">>
sToNumber == <<"t", "o", "_", "n", "u", "m", "b", "e", "r">>
sLt == <<"l", "t">>
sHasBadSubnet == <<"h", "a", "s", "_", "b", "a", "d", "_", "s", "u", "b", "n", "e", "t">>

\* The names in ast.BuiltinMap that the rules of the model call.
BuiltinMap == {sEq, sEqual, sSplit, sToNumber, sLt}

\* Mutant: only the left operand of a unification is recorded.
traceUnifyLeftOnly(tracer, event) ==
    IF event.IsExpr
    THEN LET operands == Operands(event)
         IN  IF Len(operands) = 2
             THEN used(tracer, Plug(event, operands[1]))
             ELSE tracer
    ELSE tracer

\* Mutant: the first and the last operand are recorded however many
\* operands there are.
traceUnifyAnyArity(tracer, event) ==
    IF event.IsExpr
    THEN LET operands == Operands(event)
         IN  IF Len(operands) >= 1
             THEN used(used(tracer, Plug(event, operands[1])),
                       Plug(event, operands[Len(operands)]))
             ELSE tracer
    ELSE tracer

traceUnify(tracer, event) ==
    IF event.IsExpr
    THEN LET operands == Operands(event)
         IN  IF Len(operands) = 2
             THEN used(used(tracer, Plug(event, operands[1])),
                       Plug(event, operands[2]))
             ELSE tracer
    ELSE tracer

RECURSIVE usedAll(_, _, _)
usedAll(tracer, event, terms) ==
    IF terms = <<>> THEN tracer
    ELSE usedAll(used(tracer, Plug(event, Head(terms))), event, Tail(terms))

\* Mutant: the arguments are recorded whatever the operator is.
traceEvalAnyOperator(tracer, event) ==
    IF event.IsExpr
    THEN IF event.Kind = "list"
         THEN IF Len(event.Terms) < 1 THEN tracer
              ELSE usedAll(tracer, event, Tail(event.Terms))
         ELSE IF event.Kind = "single"
         THEN used(tracer, Plug(event, event.Terms[1]))
         ELSE tracer
    ELSE tracer

traceEval(tracer, event) ==
    IF event.IsExpr
    THEN IF event.Kind = "list"
         THEN IF Len(event.Terms) < 1 THEN tracer
              ELSE IF event.Terms[1].Value.Str \in BuiltinMap
              THEN usedAll(tracer, event, Tail(event.Terms))
              ELSE tracer
         ELSE IF event.Kind = "single"
         THEN used(tracer, Plug(event, event.Terms[1]))
         ELSE tracer
    ELSE tracer

\* Mutant: every event that is no evaluation is handled as a unification.
TraceAnyOp(tracer, event) ==
    IF event.Op = "Eval" THEN traceEval(tracer, event)
    ELSE traceUnify(tracer, event)

Trace(tracer, event) ==
    IF event.Op = "Unify" THEN traceUnify(tracer, event)
    ELSE IF event.Op = "Eval" THEN traceEval(tracer, event)
    ELSE tracer

----------------------------------------------------------------------------
(* PathTree on its own: any sequence of Insert calls *)

InitTree ==
    /\ pc = "tree"
    /\ tree = EmptyTree
    /\ inserted = {}
    /\ nCalls = 0
    /\ src = NoNode
    /\ lpath = <<>>
    /\ loc = NoOutcome
    /\ input = NewTerm(NullV)
    /\ lastEvent = NoEvent
    /\ disk = NoDisk
    /\ queue = <<>>
    /\ paths = <<>>
    /\ next = 1
    /\ out = <<>>
    /\ err = NoError

InsertCall(path) ==
    /\ pc = "tree"
    /\ nCalls < MaxCalls
    /\ tree' = Insert(tree, path)
    /\ inserted' = inserted \cup {path}
    /\ nCalls' = nCalls + 1
    /\ UNCHANGED <<pc, src, lpath, loc, input, lastEvent, driver>>

NextTree == \E path \in TreePaths : InsertCall(path)

SpecTree == InitTree /\ [][NextTree]_vars

----------------------------------------------------------------------------
(* Source.Location on its own: any source tree, any path *)

InitLoc ==
    /\ pc = "loc"
    /\ tree = EmptyTree
    /\ inserted = {}
    /\ nCalls = 0
    /\ src \in Sources
    /\ lpath = <<>>
    /\ loc = NoOutcome
    /\ input = NewTerm(NullV)
    /\ lastEvent = NoEvent
    /\ disk = NoDisk
    /\ queue = <<>>
    /\ paths = <<>>
    /\ next = 1
    /\ out = <<>>
    /\ err = NoError

LocationCall(path) ==
    /\ pc = "loc"
    /\ pc' = "located"
    /\ lpath' = path
    /\ loc' = Location(src, path)
    /\ UNCHANGED <<tree, inserted, nCalls, src, input, lastEvent, driver>>

NextLoc == \E path \in LocPaths : LocationCall(path)

SpecLoc == InitLoc /\ [][NextLoc]_vars

----------------------------------------------------------------------------
(* annotate and the tracer: any annotated input, any events *)

Str(value) == NewTerm(StringV(value))
Obj(elems) == NewTerm(ObjectV(elems))

sQuote == <<"\"">>
sEscapes == <<"\\", "<">>
sComma == <<",", "\"", "]">>
sValue == <<"v">>

\* {A: {B: v, A: v}, B: v}
NestedInput ==
    Obj(<<Elem(Str(sA), Obj(<<Elem(Str(sB), Str(sValue)),
                              Elem(Str(sA), Str(sValue))>>)),
          Elem(Str(sB), Str(sValue))>>)

\* {"\"": {"\\<": v}, ",\"]": v}: keys that the encoding has to escape
EscapedInput ==
    Obj(<<Elem(Str(sQuote), Obj(<<Elem(Str(sEscapes), Str(sValue))>>)),
          Elem(Str(sComma), Str(sValue))>>)

\* {A: {A: {A: v}}, B: {}}
DeepInput ==
    Obj(<<Elem(Str(sA), Obj(<<Elem(Str(sA),
                                   Obj(<<Elem(Str(sA), Str(sValue))>>))>>)),
          Elem(Str(sB), Obj(<<>>))>>)

\* {A: [{B: v}], 1: {B: v}, B: {{A: v}}}: an array, a key that is not a
\* string, and a set
MixedInput ==
    Obj(<<Elem(Str(sA), NewTerm(ArrayV(
              <<Elem(NewTerm(NullV), Obj(<<Elem(Str(sB), Str(sValue))>>))>>))),
          Elem(NewTerm(NumberV(<<"1">>)),
               Obj(<<Elem(Str(sB), Str(sValue))>>)),
          Elem(Str(sB), NewTerm(SetV(
              <<Elem(NewTerm(NullV), Obj(<<Elem(Str(sA), Str(sValue))>>))>>)))>>)

TraceInputs == {NestedInput, EscapedInput, DeepInput, MixedInput}

\* The terms of a document, the document itself included.
RECURSIVE SubTerms(_)
SubTerms(term) ==
    {term} \cup
    UNION {SubTerms(term.Value.Elems[j].Val) : j \in 1..Len(term.Value.Elems)}

\* A literal of the rule has no location or that of the rule's source file.
Literal == NewTerm(StringV(sValue))
RegoLiteral == Term(StringV(sValue), FileLocation(sPolicyFile))

VarX == NewTerm(VarV(<<"x">>))

\* The terms an event of the engine can carry once the input is annotated:
\* terms of the input (the root term is not handed to the engine, only its
\* value) and literals of the rule.
EventTerms == (SubTerms(input) \ {input}) \cup {Literal, RegoLiteral}

Operators == {NewTerm(RefV(sSplit)), NewTerm(RefV(sHasBadSubnet))}

\* The events drawn: unifications and calls of two operands, the first
\* given directly or through a bound variable, and the other shapes and
\* operations an event can have.
Events ==
    {Event("Unify", TRUE, "list", <<NewTerm(RefV(sEq)), a, b>>, <<>>) :
        a \in EventTerms, b \in EventTerms}
    \cup {Event("Unify", TRUE, "list", <<NewTerm(RefV(sEq)), VarX, b>>,
                <<Binding(<<"x">>, a)>>) :
        a \in EventTerms, b \in EventTerms}
    \cup {Event("Eval", TRUE, "list", <<f, a, b>>, <<>>) :
        f \in Operators, a \in EventTerms, b \in EventTerms}
    \cup {Event("Eval", TRUE, "list", <<NewTerm(RefV(sSplit)), VarX, a>>,
                <<Binding(<<"x">>, a)>>) :
        a \in EventTerms}
    \cup {Event(op, TRUE, "list", <<NewTerm(RefV(sEq)), a>>, <<>>) :
        op \in {"Unify", "Eval"}, a \in EventTerms}
    \cup {Event(op, TRUE, "list", <<NewTerm(RefV(sSplit)), a, a, a>>, <<>>) :
        op \in {"Unify", "Eval"}, a \in EventTerms}
    \cup {Event(op, isExpr, "single", <<a>>, <<>>) :
        op \in {"Unify", "Eval", "Enter"}, isExpr \in BOOLEAN,
        a \in EventTerms}
    \cup {Event("Eval", TRUE, "single", <<VarX>>, <<Binding(<<"x">>, a)>>) :
        a \in EventTerms}
    \cup {Event(op, isExpr, "list", <<NewTerm(RefV(sEq)), a, a>>, <<>>) :
        op \in {"Enter", "Exit", "Fail"}, isExpr \in BOOLEAN,
        a \in EventTerms}
    \cup {Event("Unify", FALSE, "list", <<NewTerm(RefV(sEq)), a, a>>, <<>>) :
        a \in EventTerms}
    \cup {Event("Eval", TRUE, kind, <<>>, <<>>) : kind \in {"list", "other"}}

InitTrace ==
    /\ pc = "annotate"
    /\ tree = EmptyTree
    /\ inserted = {}
    /\ nCalls = 0
    /\ src = NoNode
    /\ lpath = <<>>
    /\ loc = NoOutcome
    /\ input \in TraceInputs
    /\ lastEvent = NoEvent
    /\ disk = NoDisk
    /\ queue = <<>>
    /\ paths = <<>>
    /\ next = 1
    /\ out = <<>>
    /\ err = NoError

\* annotate(Path{}, ast.NewTerm(input)), then newLocationTracer()
AnnotateInput ==
    /\ pc = "annotate"
    /\ pc' = "eval"
    /\ input' = Annotate(<<>>, input)
    /\ UNCHANGED <<tree, inserted, nCalls, src, lpath, loc, lastEvent, driver>>

\* The engine calls tracer.Trace(event)
TraceEvent(ev) ==
    /\ pc = "eval"
    /\ nCalls < MaxEvents
    /\ LET after == Trace(Tracer(tree, inserted), ev)
       IN  /\ tree' = after.tree
           /\ inserted' = after.inserted
    /\ lastEvent' = ev
    /\ nCalls' = nCalls + 1
    /\ UNCHANGED <<pc, src, lpath, loc, input, driver>>

NextTrace ==
    \/ AnnotateInput
    \/ \E ev \in Events : TraceEvent(ev)

SpecTrace == InitTrace /\ [][NextTrace]_vars

----------------------------------------------------------------------------
(* The rule of policy.rego as the engine evaluates it *)

RuleTerm(value) == Term(value, FileLocation(sPolicyFile))
Local(n) == RuleTerm(VarV(<<"l", n>>))
s24 == <<"2", "4">>
sSlash == <<"/">>

\* The value of a string key of an object term, if there is one.
Field(term, key) ==
    LET found == {j \in 1..Len(term.Value.Elems) :
                     /\ term.Value.Type = "object"
                     /\ term.Value.Elems[j].Key.Value = StringV(key)}
    IN  IF found = {} THEN [found |-> FALSE, term |-> NewTerm(NullV)]
        ELSE [found |-> TRUE,
              term |-> term.Value.Elems[CHOOSE j \in found : TRUE].Val]

\* split(str, "/") for a one-character delimiter
RECURSIVE Split(_, _, _)
Split(str, sep, part) ==
    IF str = <<>> THEN <<part>>
    ELSE IF Head(str) = sep THEN <<part>> \o Split(Tail(str), sep, <<>>)
    ELSE Split(Tail(str), sep, Append(part, Head(str)))

Digits == <<"0", "1", "2", "3", "4", "5", "6", "7", "8", "9">>

\* to_number of a string of decimal digits; -1 where it is no such string
\* and the built-in leaves the expression undefined.
RECURSIVE ToNumber(_, _)
ToNumber(str, acc) ==
    IF str = <<>> THEN acc
    ELSE IF \E d \in 1..10 : Digits[d] = Head(str)
    THEN ToNumber(Tail(str),
                  10 * acc + (CHOOSE d \in 1..10 : Digits[d] = Head(str)) - 1)
    ELSE -1

MaskParts(cidr) == Split(cidr.Value.Str, "/", <<>>)

IsSubnet(res) ==
    /\ Field(res, sType).found
    /\ Field(res, sType).term.Value = StringV(sSubnetType)

HasCidrBlock(res) ==
    /\ Field(res, sProperties).found
    /\ Field(Field(res, sProperties).term, sCidrBlock).found

CidrOf(res) == Field(Field(res, sProperties).term, sCidrBlock).term

\* deny[resourceId]: the body holds for the resource.
Denied(res) ==
    /\ IsSubnet(res)
    /\ HasCidrBlock(res)
    /\ CidrOf(res).Value.Type = "string"
    /\ Len(MaskParts(CidrOf(res))) = 2
    /\ MaskParts(CidrOf(res))[2] # <<>>
    /\ ToNumber(MaskParts(CidrOf(res))[2], 0) >= 0
    /\ ToNumber(MaskParts(CidrOf(res))[2], 0) < 24

\* The events of one resource, line by line of the rule.  A term of the
\* input arrives with the location annotate gave it; variables, literals
\* of the rule and values computed by built-ins do not carry one.
ResourceEvents(res) ==
    \* resource := input.Resources[resourceId]
    <<Event("Unify", TRUE, "list",
            <<RuleTerm(RefV(sEq)), Local("0"), res>>, <<>>)>>
    \* resource.Type == "AWS::EC2::Subnet"
    \o (IF Field(res, sType).found
        THEN <<Event("Unify", TRUE, "list",
                     <<RuleTerm(RefV(sEq)), Local("4"),
                       Field(res, sType).term>>, <<>>),
               Event("Eval", TRUE, "list",
                     <<RuleTerm(RefV(sEqual)), Local("4"),
                       RuleTerm(StringV(sSubnetType))>>,
                     <<Binding(<<"l", "4">>, Field(res, sType).term)>>)>>
        ELSE <<>>)
    \* [_, mask] = split(resource.Properties.CidrBlock, "/")
    \o (IF IsSubnet(res) /\ HasCidrBlock(res)
        THEN <<Event("Unify", TRUE, "list",
                     <<RuleTerm(RefV(sEq)), Local("5"),
                       Field(res, sProperties).term>>, <<>>),
               Event("Unify", TRUE, "list",
                     <<RuleTerm(RefV(sEq)), Local("5"), CidrOf(res)>>, <<>>),
               Event("Eval", TRUE, "list",
                     <<RuleTerm(RefV(sSplit)), Local("5"),
                       RuleTerm(StringV(sSlash)), Local("1")>>,
                     <<Binding(<<"l", "5">>, CidrOf(res))>>)>>
        ELSE <<>>)
    \* to_number(mask) < 24
    \o (IF /\ IsSubnet(res) /\ HasCidrBlock(res)
           /\ CidrOf(res).Value.Type = "string"
           /\ Len(MaskParts(CidrOf(res))) = 2
        THEN <<Event("Eval", TRUE, "list",
                     <<RuleTerm(RefV(sToNumber)),
                       NewTerm(StringV(MaskParts(CidrOf(res))[2])),
                       Local("3")>>, <<>>),
               Event("Eval", TRUE, "list",
                     <<RuleTerm(RefV(sLt)),
                       NewTerm(NumberV(MaskParts(CidrOf(res))[2])),
                       RuleTerm(NumberV(s24))>>, <<>>)>>
        ELSE <<>>)
    \o (IF Denied(res)
        THEN <<Event("Exit", FALSE, "other", <<>>, <<>>)>>
        ELSE <<Event("Fail", TRUE, "other", <<>>, <<>>)>>)

\* The resources input.Resources[resourceId] ranges over.
Resources(doc) ==
    IF Field(doc, sResources).found
    THEN Field(doc, sResources).term.Value.Elems
    ELSE <<>>

\* The events of the query data.policy.deny on the input.
PolicyEvents(doc) ==
    <<Event("Enter", FALSE, "other", <<>>, <<>>),
      Event("Eval", TRUE, "list",
            <<RuleTerm(RefV(sEq)), Local("0"), RuleTerm(RefV(sResources))>>,
            <<>>)>>
    \o Concat([j \in 1..Len(Resources(doc)) |->
                  ResourceEvents(Resources(doc)[j].Val)])

\* The result set of data.policy.deny: the keys of the denied resources.
PolicyResults(doc) ==
    {Resources(doc)[j].Key.Value.Str :
        j \in {x \in 1..Len(Resources(doc)) : Denied(Resources(doc)[x].Val)}}

----------------------------------------------------------------------------
(* infer *)

\* A line written to stderr: the results, a Location, or the error that
\* main reports.
Printed(kind, results, location, error) ==
    [Kind |-> kind, Results |-> results, Location |-> location,
     Error |-> error]

\* The documents infer is run on.
Documents ==
    {SubnetDoc, SubnetDocPropsFirst, TwoResourcesDoc, SequenceDoc, FlatDoc,
     UntypedDoc, ScalarDoc, NoNode}

Init ==
    /\ pc = "NewSource"
    /\ tree = EmptyTree
    /\ inserted = {}
    /\ nCalls = 0
    /\ src = NoNode
    /\ lpath = <<>>
    /\ loc = NoOutcome
    /\ input = NewTerm(NullV)
    /\ lastEvent = NoEvent
    /\ disk \in {Disk(fr, fp, fd, root, pr, pcs) :
                    fr \in BOOLEAN, fp \in BOOLEAN, fd \in BOOLEAN,
                    root \in Documents,
                    pr \in BOOLEAN, pcs \in BOOLEAN}
    /\ queue = <<>>
    /\ paths = <<>>
    /\ next = 1
    /\ out = <<>>
    /\ err = NoError

\* source, err := NewSource(file)
NewSourceStep ==
    /\ pc = "NewSource"
    /\ IF ~disk.FileReads
       THEN pc' = "returned" /\ err' = "read document" /\ UNCHANGED src
       ELSE IF ~disk.FileParses
       THEN pc' = "returned" /\ err' = "parse document" /\ UNCHANGED src
       ELSE pc' = "ParseInput" /\ src' = disk.Root /\ UNCHANGED err
    /\ UNCHANGED <<tree, inserted, nCalls, lpath, loc, input, lastEvent,
                   disk, queue, paths, next, out>>

\* The document is read and parsed again, decoded into an interface{} and
\* turned into a value; each of these can fail.
ParseInputStep ==
    /\ pc = "ParseInput"
    /\ IF ~disk.FileReads
       THEN pc' = "returned" /\ err' = "read document" /\ UNCHANGED input
       ELSE IF ~disk.FileParses
       THEN pc' = "returned" /\ err' = "parse document" /\ UNCHANGED input
       ELSE IF ~disk.FileDecodes
       THEN pc' = "returned" /\ err' = "decode document" /\ UNCHANGED input
       ELSE /\ pc' = "Annotate"
            /\ input' = InterfaceToValue(disk.Root)
            /\ UNCHANGED err
    /\ UNCHANGED <<tree, inserted, nCalls, src, lpath, loc, lastEvent,
                   disk, queue, paths, next, out>>

\* annotate(Path{}, ast.NewTerm(input))
AnnotateStep ==
    /\ pc = "Annotate"
    /\ pc' = "ReadPolicy"
    /\ input' = Annotate(<<>>, input)
    /\ UNCHANGED <<tree, inserted, nCalls, src, lpath, loc, lastEvent, driver>>

\* Mutant: the error of reading the rule module is kept but the run goes on.
ReadPolicyStepGoesOn ==
    /\ pc = "ReadPolicy"
    /\ pc' = "Eval"
    /\ IF ~disk.PolicyReads THEN err' = "read policy" ELSE UNCHANGED err
    /\ UNCHANGED <<tree, inserted, nCalls, src, lpath, loc, input, lastEvent,
                   disk, queue, paths, next, out>>

\* bytes, err = ioutil.ReadFile(policy)
ReadPolicyStep ==
    /\ pc = "ReadPolicy"
    /\ IF ~disk.PolicyReads
       THEN pc' = "returned" /\ err' = "read policy"
       ELSE pc' = "Eval" /\ UNCHANGED err
    /\ UNCHANGED <<tree, inserted, nCalls, src, lpath, loc, input, lastEvent,
                   disk, queue, paths, next, out>>

\* tracer := newLocationTracer(); rego.New(...).Eval(...) begins
EvalStep ==
    /\ pc = "Eval"
    /\ tree' = EmptyTree
    /\ inserted' = {}
    /\ IF ~disk.PolicyCompiles
       THEN pc' = "returned" /\ err' = "eval" /\ UNCHANGED queue
       ELSE pc' = "Tracing" /\ queue' = PolicyEvents(input) /\ UNCHANGED err
    /\ UNCHANGED <<nCalls, src, lpath, loc, input, lastEvent, disk, paths,
                   next, out>>

\* The engine hands the next event of the evaluation to tracer.Trace.
EvalTraceStep ==
    /\ pc = "Tracing"
    /\ queue # <<>>
    /\ LET after == Trace(Tracer(tree, inserted), Head(queue))
       IN  /\ tree' = after.tree
           /\ inserted' = after.inserted
    /\ lastEvent' = Head(queue)
    /\ queue' = Tail(queue)
    /\ nCalls' = nCalls + 1
    /\ UNCHANGED <<pc, src, lpath, loc, input, disk, paths, next, out, err>>

\* Eval returns the results; they are printed and the paths are listed.
ReportStep ==
    /\ pc = "Tracing"
    /\ queue = <<>>
    /\ pc' = "Locations"
    /\ out' = Append(out, Printed("Results", PolicyResults(input), NoOutcome,
                                 NoError))
    /\ paths' \in List(tree)
    /\ next' = 1
    /\ UNCHANGED <<tree, inserted, nCalls, src, lpath, loc, input, lastEvent,
                   disk, queue, err>>

\* One round of `for _, path := range tracer.tree.List()`
LocateStep ==
    /\ pc = "Locations"
    /\ next <= Len(paths)
    /\ lpath' = paths[next]
    /\ loc' = Location(src, paths[next])
    /\ IF loc'.Kind = "return"
       THEN /\ out' = Append(out, Printed("Location", {}, loc', NoError))
            /\ next' = next + 1
            /\ UNCHANGED pc
       ELSE /\ pc' = loc'.Kind
            /\ UNCHANGED <<out, next>>
    /\ UNCHANGED <<tree, inserted, nCalls, src, input, lastEvent, disk, queue,
                   paths, err>>

\* return nil
ReturnStep ==
    /\ pc = "Locations"
    /\ next > Len(paths)
    /\ pc' = "returned"
    /\ err' = NoError
    /\ UNCHANGED <<tree, inserted, nCalls, src, lpath, loc, input, lastEvent,
                   disk, queue, paths, next, out>>

\* main: an error that infer returns is written to stderr and the program
\* exits with status 1; otherwise main returns.
MainStep ==
    /\ pc = "returned"
    /\ IF err # NoError
       THEN /\ out' = Append(out, Printed("Error", {}, NoOutcome, err))
            /\ pc' = "exit 1"
       ELSE /\ pc' = "exit 0"
            /\ UNCHANGED out
    /\ UNCHANGED <<tree, inserted, nCalls, src, lpath, loc, input, lastEvent,
                   disk, queue, paths, next, err>>

Next ==
    \/ NewSourceStep
    \/ ParseInputStep
    \/ AnnotateStep
    \/ ReadPolicyStep
    \/ EvalStep
    \/ EvalTraceStep
    \/ ReportStep
    \/ LocateStep
    \/ ReturnStep
    \/ MainStep

Spec == Init /\ [][Next]_vars

----------------------------------------------------------------------------
(* Claims about the PathTree (SpecTree) *)

\* The paths that some result of List on the trie holds.
Listed == UNION {Range(l) : l \in List(tree)}

Maximal(S) == {p \in S : ~ \E q \in S : IsStrictPrefix(p, q)}

\* C3: after any sequence of Insert calls, List returns no two paths of
\* which one is a strict prefix of the other.
C3_PrefixFree ==
    pc = "tree" =>
        \A l \in List(tree) :
            \A p \in Range(l) : \A q \in Range(l) : ~IsStrictPrefix(p, q)

\* Both {A} and {A,B} were inserted and only {A,B} is listed.
C3_Witness ==
    /\ pc = "tree"
    /\ {<<sA>>, <<sA, sB>>} \subseteq inserted
    /\ List(tree) = {<< <<sA, sB>> >>}

\* C4: every inserted path is a prefix of some listed path, and when a
\* single path p was inserted List returns exactly p, once.
C4_Coverage ==
    pc = "tree" =>
        \A l \in List(tree) :
            /\ \A p \in inserted : \E q \in Range(l) : IsPrefix(p, q)
            /\ \A p \in inserted : inserted = {p} => l = <<p>>

\* A single path of full length was inserted (possibly more than once).
C4_Witness ==
    /\ pc = "tree"
    /\ \E p \in inserted : Len(p) = MaxLen /\ inserted = {p}
    /\ nCalls >= 1

\* C5 as stated: List returns exactly the maximal inserted paths, each once.
C5_ExactlyMaximalInserted ==
    pc = "tree" =>
        \A l \in List(tree) :
            /\ Range(l) = Maximal(inserted)
            /\ Len(l) = Cardinality(Range(l))

\* C5, amended: List returns exactly the maximal inserted paths, each once,
\* except that before any Insert call it returns the empty path, which was
\* not inserted.
C5_MaximalOrRoot ==
    pc = "tree" =>
        \A l \in List(tree) :
            /\ Range(l) = IF inserted = {} THEN {<<>>} ELSE Maximal(inserted)
            /\ Len(l) = Cardinality(Range(l))

\* Two maximal paths and a strict prefix of one of them were inserted; List
\* can return the two in either order.
C5_Witness ==
    /\ pc = "tree"
    /\ inserted = {<<sA>>, <<sA, sB>>, <<sB>>}
    /\ List(tree) = {<< <<sA, sB>>, <<sB>> >>, << <<sB>>, <<sA, sB>> >>}

\* C6: inserting a path that was already inserted leaves the trie, and so
\* the results List can return, unchanged.
C6_Idempotent ==
    pc = "tree" =>
        \A p \in inserted :
            /\ Insert(tree, p) = tree
            /\ List(Insert(tree, p)) = List(tree)

\* A path was inserted again after a longer path through it was inserted.
C6_Witness ==
    /\ pc = "tree"
    /\ nCalls > Cardinality(inserted)
    /\ {<<sA>>, <<sA, sB>>} \subseteq inserted

----------------------------------------------------------------------------
(* Claims about Source.Location (SpecLoc) *)

\* The keys of a mapping node's entries that equal k, by index into Content.
KeyIndexes(node, k) ==
    {j \in 1..Len(node.Content) : j % 2 = 1 /\ node.Content[j].Value = k}

\* The descent the specification describes: a document wrapper is unwrapped
\* without consuming a segment, a mapping consumes one segment on the
\* matching key, anything else ends the descent.  The result is the node
\* reached and the segments left over.
RECURSIVE Descend(_, _)
Descend(node, path) ==
    IF path = <<>> THEN [node |-> node, rest |-> path]
    ELSE IF node.Kind = "Document" /\ Len(node.Content) > 0
    THEN Descend(node.Content[1], path)
    ELSE IF node.Kind = "Mapping" /\ KeyIndexes(node, Head(path)) # {}
    THEN LET j == CHOOSE x \in KeyIndexes(node, Head(path)) :
                      \A y \in KeyIndexes(node, Head(path)) : x <= y
         IN  Descend(node.Content[j + 1], Tail(path))
    ELSE [node |-> node, rest |-> path]

\* C2: Source.Location terminates for every source tree and path, and for a
\* path that cannot be fully resolved it returns the line and column of the
\* last node reached, without an error.
C2_DeadEndReturnsLastNode ==
    pc = "located" =>
        /\ loc.Kind # "hang"
        /\ Descend(src, lpath).rest # <<>> =>
               loc = Returned(Descend(src, lpath).node)

\* C8: for a path that resolves through nested mappings to a node,
\* Source.Location returns the file with the line and column of that node.
C8_ResolvedNodeLocation ==
    pc = "located" =>
        (Descend(src, lpath).rest = <<>> =>
            loc = Returned(Descend(src, lpath).node))

----------------------------------------------------------------------------
(* Claims about annotate and the tracer (SpecTrace) *)

\* The sequences of string keys that lead from a term down through objects.
RECURSIVE Descents(_)
Descents(term) ==
    {<<>>} \cup
    IF term.Value.Type = "object"
    THEN UNION {{<<term.Value.Elems[j].Key.Value.Str>> \o d :
                    d \in Descents(term.Value.Elems[j].Val)} :
                j \in {x \in 1..Len(term.Value.Elems) :
                          term.Value.Elems[x].Key.Value.Type = "string"}}
    ELSE {}

RECURSIVE NodeAt(_, _)
NodeAt(term, keys) ==
    IF keys = <<>> THEN term
    ELSE LET j == CHOOSE x \in 1..Len(term.Value.Elems) :
                      /\ term.Value.Elems[x].Key.Value.Type = "string"
                      /\ term.Value.Elems[x].Key.Value.Str = Head(keys)
         IN  NodeAt(term.Value.Elems[j].Val, Tail(keys))

\* C7: after annotate(empty path, document), the metadata of the node
\* reached by any sequence of key descents decodes, as used() decodes it,
\* to exactly that key sequence.
C7_AnnotateDecodeRoundTrip ==
    pc = "eval" =>
        \A keys \in Descents(input) :
            used(Tracer(EmptyTree, {}), NodeAt(input, keys))
                = Tracer(Insert(EmptyTree, keys), {keys})

\* An annotated document in which a key follows a nested sibling, and one
\* whose keys hold a quote, a backslash and a "<".
C7_Witness ==
    /\ pc = "eval"
    /\ \/ {<<sA, sB>>, <<sA, sA>>, <<sB>>} \subseteq Descents(input)
       \/ <<sQuote, sEscapes>> \in Descents(input)
    /\ \A keys \in Descents(input) :
           NodeAt(input, keys).Location.File = sPathPrefix \o Marshal(keys)

CarriesPath(term) ==
    /\ ~term.Location.Nil
    /\ Len(term.Location.File) >= Len(sPathPrefix)
    /\ SubSeq(term.Location.File, 1, Len(sPathPrefix)) = sPathPrefix

PathOf(term) ==
    Unmarshal(SubSeq(term.Location.File, Len(sPathPrefix) + 1,
                     Len(term.Location.File))).path

\* Every segment of the path has its node in the trie.
RECURSIVE InTree(_, _)
InTree(t, path) ==
    \/ path = <<>>
    \/ Head(path) \in DOMAIN t /\ InTree(t[Head(path)], Tail(path))

Recorded(t, ins, term) ==
    CarriesPath(term) => PathOf(term) \in ins /\ InTree(t, PathOf(term))

\* C9: on a unification event whose expression has two operands, each
\* operand, with its variables plugged in, that carries an encoded path has
\* that path inserted into the tracer's PathTree.
C9_UnifyUsesBothOperands ==
    (/\ pc = "eval"
     /\ lastEvent.Op = "Unify"
     /\ lastEvent.IsExpr
     /\ Len(Operands(lastEvent)) = 2) =>
        \A j \in 1..2 :
            Recorded(tree, inserted, Plug(lastEvent, Operands(lastEvent)[j]))

\* The first unification of a run had two operands carrying different
\* paths, the left one through a bound variable, and nothing else was
\* inserted.
C9_Witness ==
    /\ pc = "eval"
    /\ nCalls = 1
    /\ lastEvent.Op = "Unify"
    /\ Len(Operands(lastEvent)) = 2
    /\ Operands(lastEvent)[1] = VarX
    /\ CarriesPath(Plug(lastEvent, VarX))
    /\ CarriesPath(Operands(lastEvent)[2])
    /\ PathOf(Plug(lastEvent, VarX)) # PathOf(Operands(lastEvent)[2])
    /\ inserted = {PathOf(Plug(lastEvent, VarX)), PathOf(Operands(lastEvent)[2])}

\* C10: on an evaluation event, the terms after the first of a term list
\* are used when the first names a built-in, no term is used when it does
\* not, and a single standalone term is used.
C10_EvalUsesArguments ==
    [][(/\ pc = "eval"
        /\ nCalls' = nCalls + 1
        /\ lastEvent'.Op = "Eval"
        /\ lastEvent'.IsExpr) =>
          /\ (/\ lastEvent'.Kind = "list"
              /\ Len(lastEvent'.Terms) >= 1
              /\ lastEvent'.Terms[1].Value.Str \in BuiltinMap) =>
                 \A j \in 2..Len(lastEvent'.Terms) :
                     Recorded(tree', inserted',
                              Plug(lastEvent', lastEvent'.Terms[j]))
          /\ (/\ lastEvent'.Kind = "list"
              /\ Len(lastEvent'.Terms) >= 1
              /\ lastEvent'.Terms[1].Value.Str \notin BuiltinMap) =>
                 tree' = tree /\ inserted' = inserted
          /\ lastEvent'.Kind = "single" =>
                 Recorded(tree', inserted',
                          Plug(lastEvent', lastEvent'.Terms[1]))
      ]_vars

\* The call of a function that is no built-in was evaluated with arguments
\* that carry paths, and the trie is still empty.
C10_Witness ==
    /\ pc = "eval"
    /\ nCalls = 1
    /\ lastEvent.Op = "Eval"
    /\ lastEvent.Kind = "list"
    /\ Len(lastEvent.Terms) = 3
    /\ lastEvent.Terms[1].Value.Str = sHasBadSubnet
    /\ CarriesPath(lastEvent.Terms[2])
    /\ PathOf(lastEvent.Terms[2]) # <<>>
    /\ tree = EmptyTree

\* The keys that occur in a set of paths.
KeysOf(S) == UNION {Range(p) : p \in S}

\* The values an event shows to be used, with variables plugged in: the two
\* operands of a unification, the arguments of a built-in's application, a
\* standalone term of an evaluation.
Observed(event) ==
    IF ~event.IsExpr \/ event.Op \notin {"Unify", "Eval"} THEN {}
    ELSE IF event.Op = "Unify"
    THEN IF event.Kind = "list" /\ Len(event.Terms) = 3
         THEN {Plug(event, event.Terms[j]) : j \in 2..3}
         ELSE {}
    ELSE IF event.Kind = "single" THEN {Plug(event, event.Terms[1])}
    ELSE IF /\ event.Kind = "list"
            /\ Len(event.Terms) >= 1
            /\ event.Terms[1].Value.Str \in BuiltinMap
    THEN {Plug(event, event.Terms[j]) : j \in 2..Len(event.Terms)}
    ELSE {}

\* The annotation paths of the values an event shows to be used.
ObservedPaths(event) ==
    {PathOf(term) : term \in {t \in Observed(event) : CarriesPath(t)}}

\* C11: a key that is in the annotation path of no used value of any
\* unification or evaluation event is in no path that List returns: before
\* the first event List names no key, and an event adds to the keys of the
\* listed paths only keys of the paths of the used values it observes.
C11_UnobservedKeyNotListed ==
    [][(pc = "eval" /\ nCalls' = nCalls + 1) =>
          /\ nCalls = 0 => KeysOf(Listed) = {}
          /\ \A l \in List(tree') :
                 KeysOf(Range(l)) \subseteq
                     KeysOf(Listed) \cup KeysOf(ObservedPaths(lastEvent'))
      ]_vars

\* Two events used the value under B of {A: {B: v, A: v}, B: v} and nothing
\* under A: List returns the path [B] and no path with the key A.
C11_Witness ==
    /\ pc = "eval"
    /\ nCalls = 2
    /\ <<sA, sB>> \in Descents(input)
    /\ ObservedPaths(lastEvent) = {<<sB>>}
    /\ inserted = {<<sB>>}
    /\ List(tree) = {<< <<sB>> >>}
    /\ sA \notin KeysOf(Listed)

----------------------------------------------------------------------------
(* Claims about infer (Spec) *)

CidrBlockPath == <<sResources, sSubnet, sProperties, sCidrBlock>>
TypePath == <<sResources, sSubnet, sType>>

\* The document of the scenario: Resources -> Subnet -> Properties ->
\* CidrBlock: "10.0.0.0/20", with the Type that the rule checks.
IsScenario == disk.Root \in {SubnetDoc, SubnetDocPropsFirst}

\* tracer.tree.List() has been called.
AfterList ==
    \/ pc \in {"Locations", "panic", "hang"}
    \/ pc \in {"returned", "exit 0"} /\ err = NoError

\* The Location lines printed so far.
LocationsPrinted ==
    [j \in 1..(Len(out) - 1) |-> out[j + 1].Location]

\* C1 as stated: in the scenario List returns exactly the single path
\* [Resources, Subnet, Properties, CidrBlock], and its Location is the line
\* and column of the CidrBlock scalar.
C1_OnlyCidrBlockPath ==
    (IsScenario /\ AfterList) =>
        /\ paths = <<CidrBlockPath>>
        /\ (pc \in {"returned", "exit 0"} =>
               LocationsPrinted =
                   <<Returned(Descend(disk.Root, CidrBlockPath).node)>>)

\* C1, amended: in the scenario List returns exactly two paths, that of
\* CidrBlock and that of the Type the rule checks, no prefix of them and
\* no other path, and the Location printed for each is the line and column
\* of the scalar it leads to.
C1_CidrBlockAndTypePaths ==
    (IsScenario /\ AfterList) =>
        /\ Range(paths) = {CidrBlockPath, TypePath}
        /\ Len(paths) = 2
        /\ pc \in {"Locations", "returned", "exit 0"}
        /\ (pc \in {"returned", "exit 0"} =>
               LocationsPrinted =
                   [j \in 1..2 |-> Returned(Descend(disk.Root, paths[j]).node)])

\* The run on the scenario's document has returned, having printed the
\* position of the CidrBlock scalar, line 5 column 18.
C1_Witness ==
    /\ disk.Root = SubnetDoc
    /\ pc = "returned"
    /\ err = NoError
    /\ CidrBlockPath \in Range(paths)
    /\ \E j \in 1..Len(LocationsPrinted) :
           LocationsPrinted[j] =
               [Kind |-> "return", File |-> SourceFile, Line |-> 5,
                Column |-> 18]

\* The run of infer got past the listing and ended: it returned nil, or a
\* Location call failed.
RunEnded ==
    \/ pc \in {"panic", "hang"}
    \/ pc \in {"returned", "exit 0"} /\ err = NoError

\* The paths of the used values that are no prefix of another one, the root
\* left out.
MaximalUsed == Maximal(inserted \ {<<>>})

\* C12: a run reports exactly one Location per maximal used path, that of
\* the node the path leads to, and no others; a run in which no annotated
\* value below the root is used reports no Location.
C12_OneLocationPerMaximalUsedPath ==
    RunEnded =>
        /\ pc \in {"returned", "exit 0"}
        /\ Len(LocationsPrinted) = Cardinality(MaximalUsed)
        /\ Range(LocationsPrinted) =
               {Returned(Descend(src, p).node) : p \in MaximalUsed}
        /\ (inserted \subseteq {<<>>} => LocationsPrinted = <<>>)

\* The error of the first step of infer that fails on the files of the run,
\* nil if none does.
FirstFailure ==
    IF ~disk.FileReads THEN "read document"
    ELSE IF ~disk.FileParses THEN "parse document"
    ELSE IF ~disk.FileDecodes THEN "decode document"
    ELSE IF ~disk.PolicyReads THEN "read policy"
    ELSE IF ~disk.PolicyCompiles THEN "eval"
    ELSE NoError

\* The steps of infer up to the one that returns the given error.
StepsUpTo(e) ==
    IF e \in {"read document", "parse document"} THEN {"NewSource"}
    ELSE IF e = "decode document" THEN {"NewSource", "ParseInput"}
    ELSE IF e = "read policy"
    THEN {"NewSource", "ParseInput", "Annotate", "ReadPolicy"}
    ELSE {"NewSource", "ParseInput", "Annotate", "ReadPolicy", "Eval"}

\* C13: when reading or parsing the document, reading the rule module or
\* the evaluation fails, infer returns the error of that step from that
\* step, takes no later step, and prints neither the results nor any
\* Location: the one line on stderr is the error that main writes once
\* infer has returned it.
C13_FailureAbortsWithoutOutput ==
    /\ FirstFailure # NoError =>
           /\ pc \in StepsUpTo(FirstFailure) \cup {"returned", "exit 1"}
           /\ pc \in {"returned", "exit 1"} => err = FirstFailure
           /\ out = IF pc = "exit 1"
                    THEN <<Printed("Error", {}, NoOutcome, FirstFailure)>>
                    ELSE <<>>
           /\ paths = <<>>
           /\ loc = NoOutcome
    /\ err # NoError =>
           /\ pc \in {"returned", "exit 1"}
           /\ err = FirstFailure
           /\ \A j \in 1..Len(out) : out[j].Kind \notin {"Results", "Location"}

\* The evaluation failed on the scenario's document, after the document was
\* parsed and annotated and the rule module was read: infer has returned
\* the error and printed nothing.
C13_Witness ==
    /\ pc = "returned"
    /\ err = "eval"
    /\ src = SubnetDoc
    /\ input = Annotate(<<>>, InterfaceToValue(SubnetDoc))
    /\ out = <<>>

----------------------------------------------------------------------------
(* Claims about what annotate leaves alone (SpecTrace) *)

\* The positions of the terms of a document: the indexes of the elements
\* passed through from the root, whatever kind of value holds them.
RECURSIVE Positions(_)
Positions(term) ==
    {<<>>} \cup
    UNION {{<<j>> \o p : p \in Positions(term.Value.Elems[j].Val)} :
           j \in 1..Len(term.Value.Elems)}

RECURSIVE TermAt(_, _)
TermAt(term, pos) ==
    IF pos = <<>> THEN term
    ELSE TermAt(term.Value.Elems[Head(pos)].Val, Tail(pos))

\* Every step to the position goes through a string key of an object.
RECURSIVE StringKeyed(_, _)
StringKeyed(term, pos) ==
    \/ pos = <<>>
    \/ /\ term.Value.Type = "object"
       /\ term.Value.Elems[Head(pos)].Key.Value.Type = "string"
       /\ StringKeyed(term.Value.Elems[Head(pos)].Val, Tail(pos))

\* The keys passed through on the way to the position.
RECURSIVE KeysTo(_, _)
KeysTo(term, pos) ==
    IF pos = <<>> THEN <<>>
    ELSE <<term.Value.Elems[Head(pos)].Key.Value.Str>>
             \o KeysTo(term.Value.Elems[Head(pos)].Val, Tail(pos))

\* C14 as stated: after annotate an encoded path is stored only on terms
\* that hold an object; scalars, arrays and sets carry no path metadata.
C14_OnlyObjectsAnnotated ==
    pc = "eval" =>
        \A pos \in Positions(input) :
            TermAt(input, pos).Value.Type # "object" =>
                TermAt(input, pos).Location.Nil

\* C14, amended: after annotate the encoded path is stored on the root and
\* on every value reached from it through string keys of nested objects,
\* whatever the value is (object, scalar, array or set), and it encodes the
\* keys passed; annotate descends only into objects, so the elements of
\* arrays and sets and the values under keys that are no strings, with all
\* below them, carry no path metadata, and neither does any key.
C14_AnnotatedIffStringKeyed ==
    pc = "eval" =>
        \A pos \in Positions(input) :
            /\ IF StringKeyed(input, pos)
               THEN TermAt(input, pos).Location =
                        FileLocation(sPathPrefix \o Marshal(KeysTo(input, pos)))
               ELSE TermAt(input, pos).Location.Nil
            /\ \A j \in 1..Len(TermAt(input, pos).Value.Elems) :
                   TermAt(input, pos).Value.Elems[j].Key.Location.Nil

\* The annotated {A: [{B: v}], 1: {B: v}, B: {{A: v}}}: the array under A
\* and the set under B carry their paths, the objects inside them and the
\* object under the key 1 carry none, nor do the scalars below those.
C14_Witness ==
    /\ pc = "eval"
    /\ input.Value.Elems[1].Val.Value.Type = "array"
    /\ input.Value.Elems[1].Val.Location = FileLocation(sPathPrefix \o Marshal(<<sA>>))
    /\ input.Value.Elems[3].Val.Value.Type = "set"
    /\ input.Value.Elems[3].Val.Location = FileLocation(sPathPrefix \o Marshal(<<sB>>))
    /\ TermAt(input, <<1, 1>>).Location.Nil
    /\ TermAt(input, <<1, 1, 1>>).Location.Nil
    /\ TermAt(input, <<3, 1>>).Location.Nil
    /\ input.Value.Elems[2].Key.Value.Type = "number"
    /\ TermAt(input, <<2>>).Location.Nil
    /\ TermAt(input, <<2, 1>>).Location.Nil

----------------------------------------------------------------------------
(* Claims about what Trace changes (SpecTrace) *)

\* The paths a trie holds, the prefixes included.
RECURSIVE AllPaths(_)
AllPaths(t) ==
    {<<>>} \cup UNION {{<<k>> \o p : p \in AllPaths(t[k])} : k \in DOMAIN t}

Prefixes(path) == {SubSeq(path, 1, n) : n \in 0..Len(path)}

\* The encoded paths that the terms of an event carry once its variables
\* are plugged in.
CarriedPaths(event) ==
    {PathOf(term) :
        term \in {t \in {Plug(event, event.Terms[j]) :
                            j \in 1..Len(event.Terms)} : CarriesPath(t)}}

\* C15: a call of Trace changes nothing but the tracer's PathTree, and the
\* PathTree only by inserting decoded paths of values of the event; an
\* event that is neither a unification nor an evaluation, and an event
\* whose values have no location or one without the "path:" encoding,
\* leave the PathTree as it was.
C15_TraceOnlyInsertsUsedPaths ==
    [][(pc = "eval" /\ nCalls' = nCalls + 1) =>
          /\ UNCHANGED <<pc, input, src, lpath, loc, driver>>
          /\ \E P \in SUBSET CarriedPaths(lastEvent') :
                 AllPaths(tree') =
                     AllPaths(tree) \cup UNION {Prefixes(p) : p \in P}
          /\ lastEvent'.Op \notin {"Unify", "Eval"} => tree' = tree
          /\ CarriedPaths(lastEvent') = {} => tree' = tree
      ]_vars

\* After a first event that inserted a path, the tracer was handed an event
\* of another kind whose expression holds a value with a different path:
\* that path is not in the trie.
C15_Witness ==
    /\ pc = "eval"
    /\ nCalls = 2
    /\ lastEvent.Op = "Enter"
    /\ lastEvent.IsExpr
    /\ Len(lastEvent.Terms) = 3
    /\ CarriesPath(lastEvent.Terms[2])
    /\ PathOf(lastEvent.Terms[2]) # <<>>
    /\ inserted # {}
    /\ tree # EmptyTree
    /\ PathOf(lastEvent.Terms[2]) \notin AllPaths(tree)

----------------------------------------------------------------------------
(* Claims about runtime failures of Source.Location (SpecLoc) *)

\* C16: Source.Location never fails at runtime: for every source tree and
\* path no call reads a segment of an exhausted path or a child beyond a
\* node's content, also when the path ends at a mapping with several
\* entries and the scan goes on inside the node just entered.
C16_LocationNeverPanics ==
    pc = "located" => loc.Kind # "panic"

====
